---- MODULE Spec2Model ----
(***************************************************************************)
(* PDF classification and extraction pipelines of DifferentToolV1:        *)
(* PDFProcessor (src/pdf_processor.py) and BatchPDFProcessor              *)
(* (src/batch_processor.py).                                               *)
(*                                                                         *)
(* A text is a sequence of one-character strings.  A page is a record     *)
(* [kind, text]: what page.extract_text() does on it ("text": returns     *)
(* text, "none": returns None, "raise": raises).  Page jobs are the       *)
(* futures of a ThreadPoolExecutor: a job runs to completion at any time  *)
(* after submission, and the submitting thread takes completed futures    *)
(* from as_completed in any order they are available.                      *)
(***************************************************************************)
EXTENDS Integers, Sequences, FiniteSets, TLC

VARIABLES
    readable,       \* PdfReader(pdf_path) succeeds on the document
    pages,          \* reader.pages: the pages of the document
    metadata,       \* reader.metadata: "None", "text" or "bytes"
    max_pages,      \* PDFProcessor.max_pages: <<>> is None, <<n>> is the int n
    output_dir,     \* the output_dir argument of the running pipeline
    pc,             \* position of the calling thread
    outcome,        \* "running", "returned" or "raised"
    job,            \* page index -> "pending" | "done" (submitted futures)
    job_result,     \* page index -> the dict the page job returned
    collected,      \* page indices in the order as_completed yielded them
    results,        \* the results dict of the running pipeline
    files,          \* output paths written so far
    pdf_type,       \* value returned by detect_pdf_type ("" before)
    rasterized,     \* _convert_pdf_page_to_image was called by detect_pdf_type
    pixel_count,    \* edges.shape[0] * edges.shape[1] of the page-0 image
    edge_count,     \* np.count_nonzero(edges) of the page-0 image
    input_exists,   \* the input directory of process_directory exists
    listing,        \* os.listdir(input_dir): the file names in the input directory
    dirs,           \* directories that exist under (and including) the output directory
    pdf_files,      \* the pdf_files list of process_directory
    doc_job,        \* pdf path -> "pending" | "running" | "done" (document futures)
    doc_work,       \* pdf path -> the document and the files written so far by a
                    \* process_single_pdf call that got past os.makedirs
    doc_run,        \* pdf path -> what happened inside a finished process_single_pdf call
    doc_result,     \* pdf path -> the dict process_single_pdf returned
    batch_results,  \* the results list of process_directory
    summary         \* the dict process_directory built (NoSummary before)

batchVars == <<input_exists, listing, dirs, pdf_files, doc_job, doc_work, doc_run,
               doc_result, batch_results, summary>>

vars == <<readable, pages, metadata, max_pages, output_dir, pc, outcome, job, job_result,
          collected, results, files, pdf_type, rasterized, pixel_count, edge_count,
          batchVars>>

(***************************************************************************)
(* Bounds of the model.                                                    *)
(***************************************************************************)
MaxPages == 3
MaxCap == 4
MaxDim == 5

(***************************************************************************)
(* Texts and pages.                                                        *)
(***************************************************************************)
\* the characters str.strip() removes, of those a text of the model can hold
\* (str.strip() also removes vertical tab, the separators 0x1c-0x1f and the
\* Unicode spaces, which no text of the model holds)
Whitespace == {" ", "\t", "\n", "\r", "\f"}

Texts == { <<>>, <<"\n">>, <<"a">>, <<" ", "b", " ">> }

TextPage(t) == [kind |-> "text", text |-> t]
NonePage == [kind |-> "none", text |-> <<>>]
RaisePage == [kind |-> "raise", text |-> <<>>]

Pages == {TextPage(t) : t \in Texts} \cup {NonePage, RaisePage}

SeqsUpTo(S, n) == UNION {[1..k -> S] : k \in 0..n}

\* str.strip(): the text without its leading and trailing whitespace
RECURSIVE lstrip(_)
lstrip(t) ==
    IF t = <<>> THEN <<>>
    ELSE IF Head(t) \in Whitespace THEN lstrip(Tail(t)) ELSE t

RECURSIVE rstrip(_)
rstrip(t) ==
    IF t = <<>> THEN <<>>
    ELSE IF t[Len(t)] \in Whitespace THEN rstrip(SubSeq(t, 1, Len(t) - 1)) ELSE t

strip(t) == rstrip(lstrip(t))

\* os.path.join(output_dir, f'page_{page_num+1}_<suffix>')
PagePath(dir, page_num, suffix) == <<dir, "page", page_num + 1, suffix>>

(***************************************************************************)
(* PDFProcessor._process_vector_page                                       *)
(***************************************************************************)
\* lines 161-167: extract_text(), None and an exception both give ""
\* (nothing after the inner try blocks can raise, so the handler of lines
\* 184-191 is never entered)
ExtractedText(page) == IF page.kind = "text" THEN page.text ELSE <<>>

\* variant: text_length taken from the stripped text
VectorPageResultStrippedLength(page, page_num) ==
    [page_number |-> page_num + 1,
     text        |-> ExtractedText(page),
     text_length |-> Len(strip(ExtractedText(page)))]

\* lines 178-182: the dict returned for the page
VectorPageResult(page, page_num) ==
    [page_number |-> page_num + 1,
     text        |-> ExtractedText(page),
     text_length |-> Len(ExtractedText(page))]

\* variant: the text file is written for any non-empty text
VectorPageFilesWithoutStrip(page, page_num, dir, write_ok) ==
    IF ExtractedText(page) /= <<>> /\ write_ok
    THEN {PagePath(dir, page_num, "text.txt")}
    ELSE {}

\* lines 170-176: the text file is written only for non-blank text, and a
\* failing write is only warned about
VectorPageFiles(page, page_num, dir, write_ok) ==
    IF strip(ExtractedText(page)) /= <<>> /\ write_ok
    THEN {PagePath(dir, page_num, "text.txt")}
    ELSE {}

(***************************************************************************)
(* PDFProcessor.process_vector_pdf                                         *)
(***************************************************************************)
\* lines 204-211
VectorInitResults(total_pages, md) ==
    [total_pages       |-> total_pages,
     pages_processed   |-> total_pages,
     text_content      |-> <<>>,
     metadata          |-> md,
     pages_with_text   |-> 0,
     total_text_length |-> 0]

\* variant: only pages with text get an entry in text_content
VectorCollectResultSkipBlank(res, result) ==
    IF strip(result.text) /= <<>>
    THEN [res EXCEPT
             !.text_content = Append(@, result.text),
             !.pages_with_text = @ + 1,
             !.total_text_length = @ + result.text_length]
    ELSE res

\* lines 224-228: the body of the as_completed loop
VectorCollectResult(res, result) ==
    [res EXCEPT
        !.text_content = Append(@, result.text),
        !.pages_with_text =
            IF strip(result.text) /= <<>> THEN @ + 1 ELSE @,
        !.total_text_length =
            IF strip(result.text) /= <<>> THEN @ + result.text_length ELSE @]

NoJobs == [i \in {} |-> "pending"]

NoSummary == [built |-> FALSE]

BatchIdle ==
    /\ input_exists = TRUE
    /\ listing = {}
    /\ dirs = {}
    /\ pdf_files = {}
    /\ doc_job = NoJobs
    /\ doc_work = NoJobs
    /\ doc_run = NoJobs
    /\ doc_result = NoJobs
    /\ batch_results = <<>>
    /\ summary = NoSummary

DetectIdle ==
    /\ pdf_type = ""
    /\ rasterized = FALSE
    /\ pixel_count = 0
    /\ edge_count = 0

\* lines 198-219: open the document, build the results dict, submit one job
\* per page
VectorSubmit ==
    /\ pc = "vector_start"
    /\ IF readable
       THEN /\ results' = VectorInitResults(Len(pages), metadata)
            /\ job' = [i \in 0..(Len(pages) - 1) |-> "pending"]
            /\ pc' = "vector_collect"
            /\ UNCHANGED outcome
       ELSE /\ outcome' = "raised"
            /\ pc' = "done"
            /\ UNCHANGED <<results, job>>
    /\ UNCHANGED batchVars
    /\ UNCHANGED <<readable, pages, metadata, max_pages, output_dir, job_result, collected,
                   files, pdf_type, rasterized, pixel_count, edge_count>>

\* a worker thread runs _process_vector_page for page i (line 217)
VectorPageJob(i, write_ok) ==
    /\ pc = "vector_collect"
    /\ i \in DOMAIN job
    /\ job[i] = "pending"
    /\ job' = [job EXCEPT ![i] = "done"]
    /\ job_result' = (i :> VectorPageResult(pages[i + 1], i)) @@ job_result
    /\ files' = files \cup VectorPageFiles(pages[i + 1], i, output_dir, write_ok)
    /\ UNCHANGED batchVars
    /\ UNCHANGED <<readable, pages, metadata, max_pages, output_dir, pc, outcome, collected,
                   results, pdf_type, rasterized, pixel_count, edge_count>>

InSeq(x, s) == \E k \in 1..Len(s) : s[k] = x

\* one iteration of the as_completed loop (lines 223-229): a completed
\* future that was not yielded before
VectorCollect(i) ==
    /\ pc = "vector_collect"
    /\ i \in DOMAIN job
    /\ job[i] = "done"
    /\ ~InSeq(i, collected)
    /\ results' = VectorCollectResult(results, job_result[i])
    /\ collected' = Append(collected, i)
    /\ UNCHANGED batchVars
    /\ UNCHANGED <<readable, pages, metadata, max_pages, output_dir, pc, outcome, job,
                   job_result, files, pdf_type, rasterized, pixel_count, edge_count>>

\* lines 231-241: after the pool is joined; the average over total_pages
\* divides by zero for a document without pages
VectorReturn ==
    /\ pc = "vector_collect"
    /\ Len(collected) = Cardinality(DOMAIN job)
    /\ pc' = "done"
    /\ outcome' = IF results.total_pages = 0 THEN "raised" ELSE "returned"
    /\ UNCHANGED batchVars
    /\ UNCHANGED <<readable, pages, metadata, max_pages, output_dir, job, job_result,
                   collected, results, files, pdf_type, rasterized, pixel_count,
                   edge_count>>

\* reader.metadata: None, an information dictionary of text strings, or one
\* holding a byte string (a value PyPDF2 could not decode)
Metadata == {"None", "text", "bytes"}

Documents == {d \in [readable : BOOLEAN, pages : SeqsUpTo(Pages, MaxPages),
                     metadata : Metadata] :
                 ~d.readable => (d.pages = <<>> /\ d.metadata = "None")}

VectorInit ==
    /\ \E d \in Documents : readable = d.readable /\ pages = d.pages
                           /\ metadata = d.metadata
    /\ max_pages = <<>>
    /\ output_dir = <<"out">>
    /\ pc = "vector_start"
    /\ outcome = "running"
    /\ job = NoJobs
    /\ job_result = NoJobs
    /\ collected = <<>>
    /\ results = VectorInitResults(0, "None")
    /\ files = {}
    /\ DetectIdle
    /\ BatchIdle

VectorNext ==
    \/ VectorSubmit
    \/ \E i \in 0..(MaxPages - 1), w \in BOOLEAN : VectorPageJob(i, w)
    \/ \E i \in 0..(MaxPages - 1) : VectorCollect(i)
    \/ VectorReturn

VectorSpec == VectorInit /\ [][VectorNext]_vars

(***************************************************************************)
(* PDFProcessor._process_single_page                                       *)
(***************************************************************************)
\* What can happen to a raster page job: "ok" (image written), "error" (an
\* exception inside the try block, lines 82-98), "unwritten" (cv2.imwrite
\* returns False without raising, line 98)
RasterOutcomes == {"ok", "error", "unwritten"}

\* lines 100-109: the dict returned for the page; only a failed page has the
\* key 'error', only a page that did not raise has 'file_path'
RasterPageResult(page_num, dir, how) ==
    IF how = "error"
    THEN [page_number |-> page_num + 1, error |-> "error"]
    ELSE [page_number |-> page_num + 1,
          file_path   |-> PagePath(dir, page_num, "processed.png")]

\* lines 97-98: the image file of a page
RasterPageFiles(page_num, dir, how) ==
    IF how = "ok" THEN {PagePath(dir, page_num, "processed.png")} ELSE {}

(***************************************************************************)
(* PDFProcessor.process_raster_pdf                                         *)
(***************************************************************************)
Min(a, b) == IF a <= b THEN a ELSE b

\* truth value of self.max_pages: None and 0 are false
Truthy(mp) == mp /= <<>> /\ mp[1] /= 0

\* line 120
PagesToProcess(total_pages, mp) ==
    IF Truthy(mp) THEN Min(total_pages, mp[1]) ELSE total_pages

\* lines 125-129
RasterInitResults(total_pages, mp) ==
    [total_pages      |-> total_pages,
     pages_processed  |-> PagesToProcess(total_pages, mp),
     processed_images |-> <<>>]

\* lines 142-144: the body of the as_completed loop
RasterCollectResult(res, result) ==
    IF "error" \notin DOMAIN result
    THEN [res EXCEPT !.processed_images = Append(@, result.file_path)]
    ELSE res

\* lines 116-137: open the document, build the results dict, submit one job
\* per page index in range(pages_to_process)
RasterSubmit ==
    /\ pc = "raster_start"
    /\ IF readable
       THEN /\ results' = RasterInitResults(Len(pages), max_pages)
            /\ job' = [i \in 0..(PagesToProcess(Len(pages), max_pages) - 1)
                          |-> "pending"]
            /\ pc' = "raster_collect"
            /\ UNCHANGED outcome
       ELSE /\ outcome' = "raised"
            /\ pc' = "done"
            /\ UNCHANGED <<results, job>>
    /\ UNCHANGED batchVars
    /\ UNCHANGED <<readable, pages, metadata, max_pages, output_dir, job_result, collected,
                   files, pdf_type, rasterized, pixel_count, edge_count>>

\* a worker thread runs _process_single_page for page i (line 135)
RasterPageJob(i, how) ==
    /\ pc = "raster_collect"
    /\ i \in DOMAIN job
    /\ job[i] = "pending"
    /\ job' = [job EXCEPT ![i] = "done"]
    /\ job_result' = (i :> RasterPageResult(i, output_dir, how)) @@ job_result
    /\ files' = files \cup RasterPageFiles(i, output_dir, how)
    /\ UNCHANGED batchVars
    /\ UNCHANGED <<readable, pages, metadata, max_pages, output_dir, pc, outcome, collected,
                   results, pdf_type, rasterized, pixel_count, edge_count>>

\* one iteration of the as_completed loop (lines 141-145)
RasterCollect(i) ==
    /\ pc = "raster_collect"
    /\ i \in DOMAIN job
    /\ job[i] = "done"
    /\ ~InSeq(i, collected)
    /\ results' = RasterCollectResult(results, job_result[i])
    /\ collected' = Append(collected, i)
    /\ UNCHANGED batchVars
    /\ UNCHANGED <<readable, pages, metadata, max_pages, output_dir, pc, outcome, job,
                   job_result, files, pdf_type, rasterized, pixel_count, edge_count>>

\* lines 147-155: after the pool is joined; the average over
\* pages_to_process divides by zero when no page was to be processed
RasterReturn ==
    /\ pc = "raster_collect"
    /\ Len(collected) = Cardinality(DOMAIN job)
    /\ pc' = "done"
    /\ outcome' = IF results.pages_processed = 0 THEN "raised" ELSE "returned"
    /\ UNCHANGED batchVars
    /\ UNCHANGED <<readable, pages, metadata, max_pages, output_dir, job, job_result,
                   collected, results, files, pdf_type, rasterized, pixel_count,
                   edge_count>>

\* PDFProcessor.__init__ (line 16): no cap, or an integer cap
Caps == {<<>>} \cup {<<n>> : n \in 0..MaxCap}

\* a document of scanned pages: no page has text
ScannedDocuments ==
    {d \in Documents : \A k \in 1..Len(d.pages) : d.pages[k] = TextPage(<<>>)}

RasterInit ==
    /\ \E d \in ScannedDocuments : readable = d.readable /\ pages = d.pages
                           /\ metadata = d.metadata
    /\ max_pages \in Caps
    /\ output_dir = <<"out">>
    /\ pc = "raster_start"
    /\ outcome = "running"
    /\ job = NoJobs
    /\ job_result = NoJobs
    /\ collected = <<>>
    /\ results = RasterInitResults(0, <<>>)
    /\ files = {}
    /\ DetectIdle
    /\ BatchIdle

RasterNext ==
    \/ RasterSubmit
    \/ \E i \in 0..(MaxPages - 1), how \in RasterOutcomes : RasterPageJob(i, how)
    \/ \E i \in 0..(MaxPages - 1) : RasterCollect(i)
    \/ RasterReturn

RasterSpec == RasterInit /\ [][RasterNext]_vars

(***************************************************************************)
(* PDFProcessor.detect_pdf_type                                            *)
(***************************************************************************)
\* line 14: raster_threshold = 0.95, kept as the fraction 95/100
RasterThresholdNum == 95
RasterThresholdDen == 100

\* variant: edge_density >= self.raster_threshold
DensityAtLeastThreshold(edges, pixels) ==
    edges * RasterThresholdDen >= RasterThresholdNum * pixels

\* line 44: edge_density > self.raster_threshold, with
\* edge_density = edges / pixels (line 41); pixels > 0
\* (the float quotient and the float 0.95 compare like the exact fractions
\* for every image of fewer than 2^53 / 20 pixels)
DensityAboveThreshold(edges, pixels) ==
    edges * RasterThresholdDen > RasterThresholdNum * pixels

\* lines 44-47
TypeByDensity(edges, pixels) ==
    IF DensityAboveThreshold(edges, pixels) THEN "raster" ELSE "vector"

\* line 29: page.extract_text().strip() is non-empty
HasText(page) == page.kind = "text" /\ strip(page.text) /= <<>>

\* lines 25-29 raise: unreadable file, no page 0, extract_text raising, or
\* extract_text returning None (None has no strip)
TextCheckRaises(rd, pgs) ==
    \/ ~rd
    \/ pgs = <<>>
    \/ pgs[1].kind \in {"raise", "none"}

DetectRaise ==
    /\ outcome' = "raised"
    /\ pc' = "done"

\* variant: the edge-density check runs whether or not page 0 has text
DetectTextAfterImage ==
    /\ pc = "detect_start"
    /\ IF TextCheckRaises(readable, pages)
       THEN /\ DetectRaise
       ELSE /\ pc' = "detect_image"
            /\ UNCHANGED outcome
    /\ UNCHANGED batchVars
    /\ UNCHANGED <<readable, pages, metadata, max_pages, output_dir, job, job_result,
                   collected, results, files, pdf_type, rasterized, pixel_count,
                   edge_count>>

\* lines 25-30: the text check on page 0
DetectText ==
    /\ pc = "detect_start"
    /\ IF TextCheckRaises(readable, pages)
       THEN /\ DetectRaise
            /\ UNCHANGED pdf_type
       ELSE IF HasText(pages[1])
       THEN /\ pdf_type' = "vector"
            /\ pc' = "detected"
            /\ UNCHANGED outcome
       ELSE /\ pc' = "detect_image"
            /\ UNCHANGED <<pdf_type, outcome>>
    /\ UNCHANGED batchVars
    /\ UNCHANGED <<readable, pages, metadata, max_pages, output_dir, job, job_result,
                   collected, results, files, rasterized, pixel_count, edge_count>>

\* lines 34-37: page 0 is converted to an image of width * height pixels; the
\* conversion may raise, and an image without pixels makes cvtColor raise
DetectRasterize(width, height, render_ok) ==
    /\ pc = "detect_image"
    /\ rasterized' = TRUE
    /\ IF render_ok /\ width * height > 0
       THEN /\ pixel_count' = width * height
            /\ pc' = "detect_edges"
            /\ UNCHANGED outcome
       ELSE /\ DetectRaise
            /\ UNCHANGED pixel_count
    /\ UNCHANGED batchVars
    /\ UNCHANGED <<readable, pages, metadata, max_pages, output_dir, job, job_result,
                   collected, results, files, pdf_type, edge_count>>

\* lines 40-47: Canny marks some of the pixels as edges; the density decides
DetectEdges(edges) ==
    /\ pc = "detect_edges"
    /\ edges \in 0..pixel_count
    /\ edge_count' = edges
    /\ pdf_type' = TypeByDensity(edges, pixel_count)
    /\ pc' = "detected"
    /\ UNCHANGED batchVars
    /\ UNCHANGED <<readable, pages, metadata, max_pages, output_dir, outcome, job,
                   job_result, collected, results, files, rasterized, pixel_count>>

DetectInit ==
    /\ \E d \in Documents : readable = d.readable /\ pages = d.pages
                           /\ metadata = d.metadata
    /\ max_pages = <<>>
    /\ output_dir = <<"out">>
    /\ pc = "detect_start"
    /\ outcome = "running"
    /\ job = NoJobs
    /\ job_result = NoJobs
    /\ collected = <<>>
    /\ results = VectorInitResults(0, "None")
    /\ files = {}
    /\ DetectIdle
    /\ BatchIdle

DetectNext ==
    \/ DetectText
    \/ \E w \in 0..MaxDim, h \in 0..MaxDim, ok \in BOOLEAN : DetectRasterize(w, h, ok)
    \/ \E e \in 0..(MaxDim * MaxDim) : DetectEdges(e)

DetectSpec == DetectInit /\ [][DetectNext]_vars

(***************************************************************************)
(* PDFProcessor.process_pdf as one step: every result a call can have      *)
(***************************************************************************)
\* the orders in which as_completed can yield the futures of the jobs in S
Perms(S) ==
    {o \in [1..Cardinality(S) -> S] : \A j, k \in DOMAIN o : o[j] = o[k] => j = k}

\* lines 25-50: what detect_pdf_type can do on a document
DetectTypes(rd, pgs) ==
    IF TextCheckRaises(rd, pgs) THEN {"raise"}
    ELSE IF HasText(pgs[1]) THEN {"vector"}
    ELSE {"raise"} \cup
         {TypeByDensity(e, MaxDim * MaxDim) : e \in 0..(MaxDim * MaxDim)}

\* lines 223-229 over a whole completion order
RECURSIVE VectorFold(_, _, _)
VectorFold(res, order, pgs) ==
    IF order = <<>> THEN res
    ELSE VectorFold(
             VectorCollectResult(res, VectorPageResult(pgs[Head(order) + 1], Head(order))),
             Tail(order), pgs)

\* lines 141-145 over a whole completion order
RECURSIVE RasterFold(_, _, _, _)
RasterFold(res, order, dir, hows) ==
    IF order = <<>> THEN res
    ELSE RasterFold(
             RasterCollectResult(res, RasterPageResult(Head(order), dir, hows[Head(order)])),
             Tail(order), dir, hows)

\* process_pdf raised before any pipeline returned
RaisedRun ==
    [raised |-> TRUE, type |-> "", results |-> [error |-> "error"], files |-> {}]

\* line 248: os.makedirs(output_dir, exist_ok=True) raised; nothing was
\* created
MakedirsRaisedRun == [dirs |-> {}] @@ RaisedRun

\* process_pdf was not called
NotRun ==
    [raised |-> FALSE, type |-> "", results |-> [error |-> "error"], files |-> {},
     dirs |-> {}]

\* lines 193-241
VectorRuns(pgs, md, dir) ==
    LET idx == 0..(Len(pgs) - 1) IN
    {[raised  |-> Len(pgs) = 0,
      type    |-> "vector",
      results |-> VectorFold(VectorInitResults(Len(pgs), md), order, pgs),
      files   |-> UNION {VectorPageFiles(pgs[i + 1], i, dir, w[i]) : i \in idx}] :
        order \in Perms(idx), w \in [idx -> BOOLEAN]}

\* lines 111-155
RasterRuns(pgs, mp, dir) ==
    LET idx == 0..(PagesToProcess(Len(pgs), mp) - 1) IN
    {[raised  |-> PagesToProcess(Len(pgs), mp) = 0,
      type    |-> "raster",
      results |-> RasterFold(RasterInitResults(Len(pgs), mp), order, dir, hows),
      files   |-> UNION {RasterPageFiles(i, dir, hows[i]) : i \in idx}] :
        order \in Perms(idx), hows \in [idx -> RasterOutcomes]}

\* lines 250-261: classification, then exactly one pipeline
DetectAndDispatchRuns(rd, pgs, md, mp, dir) ==
    LET types == DetectTypes(rd, pgs) IN
    (IF "raise" \in types THEN {RaisedRun} ELSE {})
    \cup (IF "vector" \in types THEN VectorRuns(pgs, md, dir) ELSE {})
    \cup (IF "raster" \in types THEN RasterRuns(pgs, mp, dir) ELSE {})

\* lines 243-261: os.makedirs(output_dir, exist_ok=True) creates the
\* directory (mk_ok) or raises out of process_pdf; then classification and
\* one pipeline. A run tells the directories it created beside its outcome
ProcessPdfRuns(rd, pgs, md, mp, dir, mk_ok) ==
    IF mk_ok
    THEN {[dirs |-> {dir}] @@ run : run \in DetectAndDispatchRuns(rd, pgs, md, mp, dir)}
    ELSE {MakedirsRaisedRun}

(***************************************************************************)
(* File names and paths                                                    *)
(***************************************************************************)
DotPdf == <<".", "p", "d", "f">>

FileNames ==
    { <<"a", ".", "p", "d", "f">>, <<"a", ".", "P", "D", "F">>,
      <<"b", ".", "p", "d", "f">>, <<"n", ".", "t", "x", "t">> }

\* str.lower() on the characters that occur in file names
LowerChar(c) ==
    CASE c = "P" -> "p" [] c = "D" -> "d" [] c = "F" -> "f" [] OTHER -> c

lower(t) == [k \in 1..Len(t) |-> LowerChar(t[k])]

endswith(t, suffix) ==
    /\ Len(t) >= Len(suffix)
    /\ SubSeq(t, Len(t) - Len(suffix) + 1, Len(t)) = suffix

\* variant: the suffix test without lower()
IsPdfNameCaseSensitive(f) == endswith(f, DotPdf)

\* batch_processor.py line 80
IsPdfName(f) == endswith(lower(f), DotPdf)

\* os.path.splitext(name)[0]: the name up to its last dot, unless only dots
\* come before that dot
SplitextRoot(name) ==
    LET dots == {k \in 1..Len(name) : name[k] = "."} IN
    IF dots = {} THEN name
    ELSE LET last == CHOOSE k \in dots : \A j \in dots : j <= k IN
         IF \E j \in 1..(last - 1) : name[j] /= "."
         THEN SubSeq(name, 1, last - 1)
         ELSE name

InputDir == "in"

\* os.path.join(input_dir, f) and os.path.basename of it
PdfPath(f) == <<InputDir, f>>
Basename(pdf_path) == pdf_path[2]

\* batch_processor.py lines 48-49
PdfName(pdf_path) == SplitextRoot(Basename(pdf_path))
PdfOutputDir(pdf_path, out) == out \o <<PdfName(pdf_path)>>

(***************************************************************************)
(* BatchPDFProcessor                                                       *)
(***************************************************************************)
\* lines 12-25
NormalizeRasterResults(res) ==
    [type            |-> "raster",
     total_pages     |-> res.total_pages,
     processed_files |->
         [i \in 1..Len(res.processed_images) |->
             [page_number |-> i,
              file_path   |-> res.processed_images[i],
              file_type   |-> "image"]]]

\* line 41: results["metadata"] if results["metadata"] else {}: None (and an
\* empty dictionary) become {}
NormalizeMetadata(md) == IF md \in {"None", "{}"} THEN "{}" ELSE md

\* lines 27-42
NormalizeVectorResults(res) ==
    [type            |-> "vector",
     total_pages     |-> res.total_pages,
     processed_files |->
         [i \in 1..Len(res.text_content) |->
             [page_number    |-> i,
              file_path      |-> <<"page", i, "text.txt">>,
              file_type      |-> "text",
              content_length |-> Len(res.text_content[i])]],
     metadata        |-> NormalizeMetadata(res.metadata)]

\* variant: the failure entry without its error field
FailureEntryWithoutError(pdf_path) ==
    [pdf_name |-> Basename(pdf_path), pdf_path |-> pdf_path]

\* lines 67-72
FailureEntry(pdf_path) ==
    [pdf_name |-> Basename(pdf_path), pdf_path |-> pdf_path, error |-> "error"]

\* lines 44-72, given whether os.makedirs succeeded and what process_pdf did
ProcessSinglePdf(pdf_path, mk_ok, run) ==
    IF ~mk_ok \/ run.raised
    THEN FailureEntry(pdf_path)
    ELSE [pdf_name |-> PdfName(pdf_path), pdf_path |-> pdf_path] @@
         (IF run.type = "raster"
          THEN NormalizeRasterResults(run.results)
          ELSE NormalizeVectorResults(run.results))

HasError(r) == "error" \in DOMAIN r

\* lines 107-112
BuildSummary(pf, res) ==
    [total_pdfs            |-> Cardinality(pf),
     successful_processing |-> Len(SelectSeq(res, LAMBDA r : ~HasError(r))),
     failed_processing     |-> Len(SelectSeq(res, LAMBDA r : HasError(r))),
     results               |-> res]

NoPdfError == [error |-> "No PDF files found in the input directory"]
SummaryFile(out) == <<out, "processing_results.json">>

PipelineIdle ==
    /\ readable = TRUE
    /\ pages = <<>>
    /\ metadata = "None"
    /\ max_pages = <<>>
    /\ job = NoJobs
    /\ job_result = NoJobs
    /\ results = VectorInitResults(0, "None")

pipelineVars == <<readable, pages, metadata, max_pages, job, job_result, results,
                  pdf_type, rasterized, pixel_count, edge_count>>

\* the documents a PDF file of the batch can hold: a corrupt file, a
\* one-page text document, a two-page text document, a one-page scan
BatchDocuments ==
    { [readable |-> FALSE, pages |-> <<>>, metadata |-> "None"],
      [readable |-> TRUE, pages |-> <<TextPage(<<"a">>)>>, metadata |-> "text"],
      [readable |-> TRUE, pages |-> <<TextPage(<<"a">>)>>, metadata |-> "bytes"],
      [readable |-> TRUE, pages |-> <<TextPage(<<" ", "b", " ">>), RaisePage>>,
       metadata |-> "None"],
      [readable |-> TRUE, pages |-> <<TextPage(<<>>)>>, metadata |-> "None"] }

OutputDir == <<"out">>

\* what process_pdf can do on document d written under the subdirectory of
\* file f, with the default PDFProcessor() of line 9 (no page cap)
BatchRuns ==
    [d \in BatchDocuments |->
        [f \in FileNames |->
            ProcessPdfRuns(d.readable, d.pages, d.metadata, <<>>,
                           PdfOutputDir(PdfPath(f), OutputDir), TRUE)]]

\* variant: no early return when the directory holds no PDF
BatchListWithoutEarlyReturn ==
    /\ pc = "batch_start"
    /\ IF ~input_exists
       THEN /\ outcome' = "raised"
            /\ pc' = "done"
            /\ UNCHANGED <<pdf_files, doc_job>>
       ELSE LET found == {PdfPath(f) : f \in {g \in listing : IsPdfName(g)}} IN
            /\ pdf_files' = found
            /\ doc_job' = [p \in found |-> "pending"]
            /\ pc' = "batch_collect"
            /\ UNCHANGED outcome
    /\ UNCHANGED <<input_exists, listing, dirs, doc_work, doc_run, doc_result, batch_results,
                   output_dir, collected, files, summary>>
    /\ UNCHANGED pipelineVars

\* lines 77-92: list the directory, return the error object when it holds
\* no PDF, otherwise submit one job per PDF
BatchList ==
    /\ pc = "batch_start"
    /\ IF ~input_exists
       THEN /\ outcome' = "raised"
            /\ pc' = "done"
            /\ UNCHANGED <<pdf_files, doc_job, summary>>
       ELSE LET found == {PdfPath(f) : f \in {g \in listing : IsPdfName(g)}} IN
            /\ pdf_files' = found
            /\ IF found = {}
               THEN /\ summary' = NoPdfError
                    /\ outcome' = "returned"
                    /\ pc' = "done"
                    /\ UNCHANGED doc_job
               ELSE /\ doc_job' = [p \in found |-> "pending"]
                    /\ pc' = "batch_collect"
                    /\ UNCHANGED <<summary, outcome>>
    /\ UNCHANGED <<input_exists, listing, dirs, doc_work, doc_run, doc_result, batch_results,
                   output_dir, collected, files>>
    /\ UNCHANGED pipelineVars

\* the files the runs of process_pdf on document d of file p can write
RunFiles(p, d) == UNION {run.files : run \in BatchRuns[d][Basename(p)]}

\* a worker thread starts process_single_pdf on one PDF (line 90): the file
\* holds document d; os.makedirs (line 50) creates the output directory and
\* the document's subdirectory, or raises, and then the except clause
\* returns the failure entry
DocumentStart(p, d, mk_ok) ==
    /\ pc = "batch_collect"
    /\ p \in DOMAIN doc_job
    /\ doc_job[p] = "pending"
    /\ IF mk_ok
       THEN /\ dirs' = dirs \cup {output_dir, PdfOutputDir(p, output_dir)}
            /\ doc_job' = [doc_job EXCEPT ![p] = "running"]
            /\ doc_work' = (p :> [doc |-> d, written |-> {}]) @@ doc_work
            /\ UNCHANGED <<doc_run, doc_result>>
       ELSE /\ doc_job' = [doc_job EXCEPT ![p] = "done"]
            /\ doc_run' = (p :> [doc |-> d, makedirs_ok |-> FALSE, run |-> NotRun])
                              @@ doc_run
            /\ doc_result' = (p :> ProcessSinglePdf(p, FALSE, NotRun)) @@ doc_result
            /\ UNCHANGED <<dirs, doc_work>>
    /\ UNCHANGED <<input_exists, listing, pdf_files, batch_results, summary,
                   output_dir, pc, outcome, collected, files>>
    /\ UNCHANGED pipelineVars

\* process_pdf (line 53) is running inside the worker: one of its page jobs
\* writes its output file f while the future of the document is not done
DocumentWrite(p, f) ==
    /\ pc = "batch_collect"
    /\ p \in DOMAIN doc_work
    /\ doc_job[p] = "running"
    /\ f \notin doc_work[p].written
    /\ \E run \in BatchRuns[doc_work[p].doc][Basename(p)] :
           doc_work[p].written \cup {f} \subseteq run.files
    /\ files' = files \cup {f}
    /\ doc_work' = [doc_work EXCEPT ![p].written = @ \cup {f}]
    /\ UNCHANGED <<input_exists, listing, dirs, pdf_files, doc_job, doc_run,
                   doc_result, batch_results, summary, output_dir, pc, outcome,
                   collected>>
    /\ UNCHANGED pipelineVars

\* process_pdf returned or raised with the run whose files were written;
\* process_single_pdf normalizes (lines 55-65) or catches (lines 67-72) and
\* the future of the document is done
DocumentFinish(p, run) ==
    /\ pc = "batch_collect"
    /\ p \in DOMAIN doc_work
    /\ doc_job[p] = "running"
    /\ run \in BatchRuns[doc_work[p].doc][Basename(p)]
    /\ run.files = doc_work[p].written
    /\ doc_job' = [doc_job EXCEPT ![p] = "done"]
    /\ doc_run' = (p :> [doc |-> doc_work[p].doc, makedirs_ok |-> TRUE, run |-> run])
                      @@ doc_run
    /\ doc_result' = (p :> ProcessSinglePdf(p, TRUE, run)) @@ doc_result
    /\ UNCHANGED <<input_exists, listing, dirs, pdf_files, doc_work, batch_results,
                   summary, output_dir, pc, outcome, collected, files>>
    /\ UNCHANGED pipelineVars

\* one iteration of the as_completed loop (lines 94-104); process_single_pdf
\* catches every Exception, so future.result() returns its dict
BatchCollect(p) ==
    /\ pc = "batch_collect"
    /\ p \in DOMAIN doc_job
    /\ doc_job[p] = "done"
    /\ ~InSeq(p, collected)
    /\ batch_results' = Append(batch_results, doc_result[p])
    /\ collected' = Append(collected, p)
    /\ UNCHANGED <<input_exists, listing, dirs, pdf_files, doc_job, doc_work, doc_run,
                   doc_result, summary, output_dir, pc, outcome, files>>
    /\ UNCHANGED pipelineVars

\* json.dump (line 117) raises TypeError on a value that is not
\* JSON-serialisable: the byte string in the metadata of a vector entry
JsonSerialisable(res) ==
    \A k \in 1..Len(res) :
        "metadata" \in DOMAIN res[k] => res[k].metadata /= "bytes"

\* variant: the summary is built and written without waiting for the pool
BatchSummarizeWithoutJoin ==
    /\ pc = "batch_collect"
    /\ summary' = BuildSummary(pdf_files, batch_results)
    /\ pc' = "done"
    /\ IF output_dir \in dirs
       THEN /\ files' = files \cup {SummaryFile(output_dir)}
            /\ outcome' = IF JsonSerialisable(batch_results)
                          THEN "returned" ELSE "raised"
       ELSE /\ outcome' = "raised"
            /\ UNCHANGED files
    /\ UNCHANGED <<input_exists, listing, dirs, pdf_files, doc_job, doc_work, doc_run,
                   doc_result, batch_results, output_dir, collected>>
    /\ UNCHANGED pipelineVars

\* lines 106-119: after the pool is joined, build the summary and write it;
\* open() raises when the output directory does not exist, and json.dump
\* raises after open() created the file when a result is not serialisable
BatchSummarize ==
    /\ pc = "batch_collect"
    /\ Len(collected) = Cardinality(pdf_files)
    /\ summary' = BuildSummary(pdf_files, batch_results)
    /\ pc' = "done"
    /\ IF output_dir \in dirs
       THEN /\ files' = files \cup {SummaryFile(output_dir)}
            /\ outcome' = IF JsonSerialisable(batch_results)
                          THEN "returned" ELSE "raised"
       ELSE /\ outcome' = "raised"
            /\ UNCHANGED files
    /\ UNCHANGED <<input_exists, listing, dirs, pdf_files, doc_job, doc_work, doc_run,
                   doc_result, batch_results, output_dir, collected>>
    /\ UNCHANGED pipelineVars

BatchInit ==
    /\ input_exists \in BOOLEAN
    /\ listing \in SUBSET FileNames
    /\ ~input_exists => listing = {}
    /\ output_dir = OutputDir
    /\ dirs \in {{}, {output_dir}}
    /\ pdf_files = {}
    /\ doc_job = NoJobs
    /\ doc_work = NoJobs
    /\ doc_run = NoJobs
    /\ doc_result = NoJobs
    /\ batch_results = <<>>
    /\ summary = NoSummary
    /\ pc = "batch_start"
    /\ outcome = "running"
    /\ collected = <<>>
    /\ files = {}
    /\ PipelineIdle
    /\ DetectIdle

BatchNext ==
    \/ BatchList
    \/ \E p \in DOMAIN doc_job, d \in BatchDocuments, ok \in BOOLEAN :
           DocumentStart(p, d, ok)
    \/ \E p \in DOMAIN doc_work :
           \E f \in RunFiles(p, doc_work[p].doc) : DocumentWrite(p, f)
    \/ \E p \in DOMAIN doc_work :
           \E run \in BatchRuns[doc_work[p].doc][Basename(p)] : DocumentFinish(p, run)
    \/ \E p \in DOMAIN doc_job : BatchCollect(p)
    \/ BatchSummarize

BatchSpec == BatchInit /\ [][BatchNext]_vars

(***************************************************************************)
(* Properties of process_vector_pdf (checked under VectorSpec)             *)
(***************************************************************************)
VectorReturned == outcome = "returned" /\ "text_content" \in DOMAIN results

IsPermutationOfPages(order, n) ==
    /\ Len(order) = n
    /\ \A i \in 0..(n - 1) : Cardinality({k \in 1..Len(order) : order[k] = i}) = 1

RECURSIVE SumLen(_)
SumLen(ts) == IF ts = <<>> THEN 0 ELSE Len(Head(ts)) + SumLen(Tail(ts))

NonBlank(ts) == SelectSeq(ts, LAMBDA t : strip(t) /= <<>>)

\* C1: the returned text_content is in page order: text_content[i] is the
\* text extracted from page i, for every completion order of the page jobs.
C1_TextContentInPageOrder ==
    VectorReturned =>
        /\ Len(results.text_content) = Len(pages)
        /\ \A i \in 0..(Len(pages) - 1) :
               results.text_content[i + 1] = ExtractedText(pages[i + 1])

\* C2: when process_vector_pdf returns, text_content has exactly one entry
\* per page (the empty text for a page whose extraction failed or gave
\* nothing): no page is dropped, none is delivered twice.
C2_OneEntryPerPage ==
    VectorReturned =>
        /\ results.total_pages = Len(pages)
        /\ Len(results.text_content) = results.total_pages
        /\ IsPermutationOfPages(collected, Len(pages))
        /\ \A k \in 1..Len(collected) :
               /\ results.text_content[k] = ExtractedText(pages[collected[k] + 1])
               /\ pages[collected[k] + 1].kind /= "text"
                      => results.text_content[k] = <<>>

\* a three-page document with a page whose extraction raised, returned after
\* the jobs were collected out of page order
C2_Witness ==
    /\ VectorReturned
    /\ Len(pages) = 3
    /\ \E k \in 1..3 : pages[k] = RaisePage
    /\ collected = <<2, 0, 1>>

\* C3: in a returned report pages_with_text is the number of entries of
\* text_content that are non-empty after strip, and total_text_length is the
\* sum of the lengths of exactly those entries.
C3_TextCounters ==
    VectorReturned =>
        /\ results.pages_with_text = Len(NonBlank(results.text_content))
        /\ results.total_text_length = SumLen(NonBlank(results.text_content))

\* a report over a padded text, a whitespace-only page and a failed page
C3_Witness ==
    /\ VectorReturned
    /\ \E k \in 1..Len(pages) : pages[k] = TextPage(<<" ", "b", " ">>)
    /\ \E k \in 1..Len(pages) : pages[k] = TextPage(<<"\n">>)
    /\ \E k \in 1..Len(pages) : pages[k] = RaisePage
    /\ results.pages_with_text = 1
    /\ results.total_text_length = 3

(***************************************************************************)
(* Properties of process_raster_pdf (checked under RasterSpec)             *)
(***************************************************************************)
RasterReturned == outcome = "returned" /\ "processed_images" \in DOMAIN results

\* C4: with page cap N on a document of P > N pages, a page job is submitted
\* for exactly the indices 0..N-1 and the report has pages_processed = N and
\* total_pages = P.
C4_CapLimitsSubmittedPages ==
    (RasterReturned /\ max_pages /= <<>> /\ Len(pages) > max_pages[1]) =>
        /\ DOMAIN job = 0..(max_pages[1] - 1)
        /\ results.pages_processed = max_pages[1]
        /\ results.total_pages = Len(pages)

\* C5: for every given cap (0 included) pages_processed = min(total_pages,
\* cap); only without a cap is it total_pages.
C5_PagesProcessedIsMin ==
    RasterReturned =>
        results.pages_processed =
            IF max_pages /= <<>> THEN Min(Len(pages), max_pages[1]) ELSE Len(pages)

(***************************************************************************)
(* Properties of detect_pdf_type (checked under DetectSpec)                *)
(***************************************************************************)
PageZeroHasText ==
    /\ readable
    /\ pages /= <<>>
    /\ pages[1].kind = "text"
    /\ strip(pages[1].text) /= <<>>

PageZeroBlank ==
    /\ readable
    /\ pages /= <<>>
    /\ pages[1].kind = "text"
    /\ strip(pages[1].text) = <<>>

\* C6: a document whose page 0 has non-blank text is classified 'vector'
\* by the text check alone: the page is never rasterized and no edge density
\* is looked at.
C6_TextTakesPrecedence ==
    (PageZeroHasText /\ pc /= "detect_start") =>
        /\ pc = "detected"
        /\ outcome /= "raised"
        /\ pdf_type = "vector"
        /\ ~rasterized
        /\ pixel_count = 0
        /\ edge_count = 0

\* page 0 holds padded text and was classified
C6_Witness ==
    /\ PageZeroHasText
    /\ pages[1].text = <<" ", "b", " ">>
    /\ pc = "detected"
    /\ pdf_type = "vector"

\* C7: a document whose page 0 has no text is 'raster' exactly when
\* edge_count / pixel_count > 0.95 (19/20); a density of exactly 0.95 and a
\* page without any edge pixel are 'vector'.
C7_DensityThreshold ==
    (PageZeroBlank /\ pc = "detected") =>
        /\ rasterized
        /\ pixel_count > 0
        /\ pdf_type = "raster" <=> 20 * edge_count > 19 * pixel_count
        /\ pdf_type = "vector" <=> 20 * edge_count <= 19 * pixel_count
        /\ 20 * edge_count = 19 * pixel_count => pdf_type = "vector"
        /\ edge_count = 0 => pdf_type = "vector"

\* a page of 20 pixels with 19 edge pixels (density exactly 0.95)
C7_Witness ==
    /\ PageZeroBlank
    /\ pc = "detected"
    /\ pixel_count = 20
    /\ edge_count = 19
    /\ pdf_type = "vector"

(***************************************************************************)
(* Properties of process_directory (checked under BatchSpec)               *)
(***************************************************************************)
\* a file name with a case-insensitive .pdf suffix
HasPdfSuffix(f) ==
    /\ Len(f) >= 4
    /\ f[Len(f) - 3] = "."
    /\ f[Len(f) - 2] \in {"p", "P"}
    /\ f[Len(f) - 1] \in {"d", "D"}
    /\ f[Len(f)] \in {"f", "F"}

PdfsFound == {f \in listing : HasPdfSuffix(f)}

SummaryBuilt == "total_pdfs" \in DOMAIN summary

EntriesOf(pdf_path, res) == {k \in 1..Len(res) : res[k].pdf_path = pdf_path}

\* what the job of a document did: makedirs or process_pdf raised
DocumentRaised(p) == ~doc_run[p].makedirs_ok \/ doc_run[p].run.raised

\* C8: the summary of a batch run over at least one PDF has total_pdfs =
\* len(results) = number of PDF files found, successful + failed = total,
\* failed = number of entries with an error field, and exactly one entry per
\* input file.
C8_SummaryTotalsConsistent ==
    SummaryBuilt =>
        /\ PdfsFound /= {}
        /\ summary.total_pdfs = Cardinality(PdfsFound)
        /\ summary.total_pdfs = Len(summary.results)
        /\ summary.successful_processing + summary.failed_processing
               = summary.total_pdfs
        /\ summary.failed_processing =
               Cardinality({k \in 1..Len(summary.results) :
                                "error" \in DOMAIN summary.results[k]})
        /\ \A f \in PdfsFound :
               Cardinality(EntriesOf(PdfPath(f), summary.results)) = 1

\* a returned summary over three PDFs, one of them failed
C8_Witness ==
    /\ SummaryBuilt
    /\ outcome = "returned"
    /\ summary.total_pdfs = 3
    /\ summary.successful_processing = 2
    /\ summary.failed_processing = 1

\* C9: an error raised while one document is processed becomes the Failure
\* entry {pdf_name, pdf_path, error} of that document and never leaves
\* process_directory; every sibling is processed to completion and has its
\* own entry; an entry has an error field iff its document's processing
\* raised.
C9_DocumentErrorsIsolated ==
    /\ pc = "batch_collect" => outcome = "running"
    /\ outcome = "raised" =>
           \/ ~input_exists
           \/ SummaryBuilt /\ output_dir \notin dirs
           \/ SummaryBuilt /\ ~JsonSerialisable(summary.results)
    /\ SummaryBuilt =>
           \A p \in pdf_files :
               /\ doc_job[p] = "done"
               /\ Cardinality(EntriesOf(p, summary.results)) = 1
               /\ \A k \in EntriesOf(p, summary.results) :
                      /\ "error" \in DOMAIN summary.results[k] <=> DocumentRaised(p)
                      /\ DocumentRaised(p) =>
                             DOMAIN summary.results[k] = {"pdf_name", "pdf_path", "error"}

\* a returned batch in which one document failed in makedirs, one inside
\* process_pdf, and a third succeeded
C9_Witness ==
    /\ SummaryBuilt
    /\ outcome = "returned"
    /\ \E p, q, r \in pdf_files :
           /\ ~doc_run[p].makedirs_ok
           /\ doc_run[q].makedirs_ok /\ doc_run[q].run.raised
           /\ ~DocumentRaised(r)
           /\ summary.results[1].pdf_path = p
           /\ summary.results[3].pdf_path = r

\* C10: on an input directory without any PDF, process_directory returns
\* the error object without raising, submits no document job, creates no
\* subdirectory or page output and writes no processing_results.json.
C10_NoPdfFilesFound ==
    (pc = "done" /\ input_exists /\ PdfsFound = {}) =>
        /\ outcome = "returned"
        /\ DOMAIN summary = {"error"}
        /\ summary.error = "No PDF files found in the input directory"
        /\ DOMAIN doc_job = {}
        /\ DOMAIN doc_run = {}
        /\ batch_results = <<>>
        /\ dirs \subseteq {output_dir}
        /\ files = {}

\* a directory holding only a text file
C10_Witness ==
    /\ pc = "done"
    /\ input_exists
    /\ listing = {<<"n", ".", "t", "x", "t">>}
    /\ outcome = "returned"

\* C11: called with an input directory that does not exist, process_directory
\* hands the failure to the caller as an error object, not as an exception.
C11_MissingInputDirIsErrorObject ==
    (pc = "done" /\ ~input_exists) =>
        /\ outcome = "returned"
        /\ "error" \in DOMAIN summary

\* the output paths the job of a document wrote
WrittenBy(p) == doc_run[p].run.files

\* C12: no two document jobs of a batch write the same output file: two
\* distinct PDF files (a.pdf and a.PDF included) have distinct subdirectories
\* and disjoint sets of page output paths.
C12_DocumentOutputsDisjoint ==
    \A p, q \in DOMAIN doc_run :
        p /= q =>
            /\ PdfOutputDir(p, output_dir) /= PdfOutputDir(q, output_dir)
            /\ WrittenBy(p) \cap WrittenBy(q) = {}

\* C12 for the written paths alone
C12_WrittenPathsDisjoint ==
    \A p, q \in DOMAIN doc_run :
        p /= q => WrittenBy(p) \cap WrittenBy(q) = {}

(***************************************************************************)
(* Page failures in process_raster_pdf (checked under RasterSpec)          *)
(***************************************************************************)
\* the page jobs that returned an error dict
FailedPages == {i \in DOMAIN job_result : "error" \in DOMAIN job_result[i]}

SucceededPages == DOMAIN job_result \ FailedPages

SeqToSet(s) == {s[k] : k \in 1..Len(s)}

\* the report of a finished raster run lists the output path of every page
\* that did not fail, each once, and counts the attempted pages
RasterReportIsolatesFailures ==
    /\ outcome = "returned"
    /\ \A i \in DOMAIN job : job[i] = "done"
    /\ SeqToSet(results.processed_images) =
           {PagePath(output_dir, i, "processed.png") : i \in SucceededPages}
    /\ Len(results.processed_images) = Cardinality(SucceededPages)
    /\ results.pages_processed = Cardinality(DOMAIN job)
    /\ Len(results.processed_images) <= results.pages_processed
    /\ Len(results.processed_images) = results.pages_processed <=> FailedPages = {}

\* C13: for every subset of pages whose raster job fails, process_raster_pdf
\* does not raise, runs every other page job to completion and returns a
\* report whose processed_images holds exactly the output paths of the pages
\* that succeeded, with pages_processed the attempted page count.
C13_RasterFailuresIsolated ==
    (pc = "done" /\ readable) => RasterReportIsolatesFailures

\* C13 for the documents with at least one page to process
C13_RasterFailuresIsolatedWithPages ==
    (pc = "done" /\ readable /\ DOMAIN job /= {}) => RasterReportIsolatesFailures

\* a three-page run in which exactly the middle page failed
C13_FailedMiddlePage ==
    /\ pc = "done"
    /\ outcome = "returned"
    /\ DOMAIN job = 0..2
    /\ FailedPages = {1}

\* C14: in the normalized result of a raster document every processed_files
\* entry pairs page_number k with the output file page k's job wrote.
C14_RasterEntriesMatchPages ==
    RasterReturned =>
        LET entries == NormalizeRasterResults(results).processed_files IN
        \A k \in 1..Len(entries) :
            entries[k].file_path =
                PagePath(output_dir, entries[k].page_number - 1, "processed.png")

(***************************************************************************)
(* Normalized vector results and text files (checked under VectorSpec)     *)
(***************************************************************************)
\* C15: the normalized result of a vector document has one processed_files
\* entry per page, and the entry with page_number k has content_length equal
\* to the length of the text extracted from page k.
C15_VectorEntriesMatchPages ==
    VectorReturned =>
        LET entries == NormalizeVectorResults(results).processed_files IN
        /\ Len(entries) = Len(pages)
        /\ \A k \in 1..Len(entries) :
               /\ entries[k].page_number = k
               /\ entries[k].content_length = Len(ExtractedText(pages[k]))

\* the pages whose text is non-empty after strip
NonBlankPages ==
    {i \in 0..(Len(pages) - 1) : strip(ExtractedText(pages[i + 1])) /= <<>>}

PageTexts == [k \in 1..Len(pages) |-> ExtractedText(pages[k])]

\* C16: page_<n>_text.txt is written only for a page whose stripped text is
\* non-empty; a failed write aborts neither the page job nor the run, and the
\* page's text still is in text_content and in both counters.
C16_TextFilesOnlyForText ==
    /\ files \subseteq {PagePath(output_dir, i, "text.txt") :
                            i \in NonBlankPages \cap DOMAIN job_result}
    /\ \A i \in DOMAIN job_result :
           /\ job_result[i].text = ExtractedText(pages[i + 1])
           /\ "error" \notin DOMAIN job_result[i]
    /\ (pc = "done" /\ readable /\ pages /= <<>>) =>
           /\ outcome = "returned"
           /\ \A i \in NonBlankPages :
                  \E k \in 1..Len(collected) :
                      /\ collected[k] = i
                      /\ results.text_content[k] = ExtractedText(pages[i + 1])
           /\ results.pages_with_text = Cardinality(NonBlankPages)
           /\ results.total_text_length = SumLen(NonBlank(PageTexts))

\* a returned run with a blank page, a page whose text file was written and
\* a page whose write failed
C16_Witness ==
    /\ VectorReturned
    /\ Len(pages) = 3
    /\ Cardinality(NonBlankPages) = 2
    /\ \E i \in NonBlankPages : PagePath(output_dir, i, "text.txt") \in files
    /\ \E i \in NonBlankPages : PagePath(output_dir, i, "text.txt") \notin files
    /\ results.pages_with_text = 2

(***************************************************************************)
(* Documents without pages                                                 *)
(***************************************************************************)
\* C19: on a document that opens but has no pages, process_raster_pdf returns
\* a report with total_pages = 0, pages_processed = 0 and an empty list
\* instead of raising (checked under RasterSpec).
C19_ZeroPagesReturnEmptyReport ==
    (pc = "done" /\ readable /\ pages = <<>>) =>
        /\ outcome = "returned"
        /\ results.total_pages = 0
        /\ results.pages_processed = 0
        /\ results.processed_images = <<>>

\* the same for process_vector_pdf (checked under VectorSpec)
C19_VectorZeroPagesReturnEmptyReport ==
    (pc = "done" /\ readable /\ pages = <<>>) =>
        /\ outcome = "returned"
        /\ results.total_pages = 0
        /\ results.pages_processed = 0
        /\ results.text_content = <<>>

(***************************************************************************)
(* PDFProcessor.process_pdf, step by step                                  *)
(***************************************************************************)
\* results before any pipeline has built its dict
NoReport == [started |-> FALSE]

\* line 248: os.makedirs(output_dir, exist_ok=True) creates the directory or
\* raises (nothing in process_pdf catches it)
ProcessPdfStart(mk_ok) ==
    /\ pc = "process_start"
    /\ IF mk_ok
       THEN /\ dirs' = dirs \cup {output_dir}
            /\ pc' = "detect_start"
            /\ UNCHANGED outcome
       ELSE /\ DetectRaise
            /\ UNCHANGED dirs
    /\ UNCHANGED <<input_exists, listing, pdf_files, doc_job, doc_work, doc_run,
                   doc_result, batch_results, summary>>
    /\ UNCHANGED <<readable, pages, metadata, max_pages, output_dir, job, job_result,
                   collected, results, files, pdf_type, rasterized, pixel_count,
                   edge_count>>

\* variant: every document goes to the vector pipeline
DispatchToVector ==
    /\ pc = "detected"
    /\ pc' = "vector_start"
    /\ UNCHANGED batchVars
    /\ UNCHANGED <<readable, pages, metadata, max_pages, output_dir, outcome, job,
                   job_result, collected, results, files, pdf_type, rasterized,
                   pixel_count, edge_count>>

\* lines 256-259: the pipeline is chosen by the type detect_pdf_type returned
Dispatch ==
    /\ pc = "detected"
    /\ pc' = IF pdf_type = "raster" THEN "raster_start" ELSE "vector_start"
    /\ UNCHANGED batchVars
    /\ UNCHANGED <<readable, pages, metadata, max_pages, output_dir, outcome, job,
                   job_result, collected, results, files, pdf_type, rasterized,
                   pixel_count, edge_count>>

\* the documents process_pdf is run on: a corrupt file, a document without
\* pages, first pages whose text extraction fails, text documents, scans,
\* and a blank first page followed by a text page
ProcessDocuments ==
    BatchDocuments \cup
    { [readable |-> TRUE, pages |-> <<>>, metadata |-> "text"],
      [readable |-> TRUE, pages |-> <<NonePage>>, metadata |-> "None"],
      [readable |-> TRUE, pages |-> <<RaisePage, TextPage(<<"a">>)>>,
       metadata |-> "text"],
      [readable |-> TRUE, pages |-> <<TextPage(<<"\n">>), TextPage(<<"a">>)>>,
       metadata |-> "bytes"],
      [readable |-> TRUE, pages |-> <<TextPage(<<>>), TextPage(<<>>)>>,
       metadata |-> "text"] }

ProcessInit ==
    /\ \E d \in ProcessDocuments : readable = d.readable /\ pages = d.pages
                           /\ metadata = d.metadata
    /\ max_pages \in Caps
    /\ output_dir = OutputDir
    /\ pc = "process_start"
    /\ outcome = "running"
    /\ job = NoJobs
    /\ job_result = NoJobs
    /\ collected = <<>>
    /\ results = NoReport
    /\ files = {}
    /\ DetectIdle
    /\ BatchIdle

\* process_pdf: makedirs, detect_pdf_type, then one of the two pipelines,
\* whose return or raise is the return or raise of process_pdf (line 261);
\* page 0 is rendered as a MaxDim x MaxDim image or as an empty one, and the
\* edge counts are those around the threshold
ProcessNext ==
    \/ \E ok \in BOOLEAN : ProcessPdfStart(ok)
    \/ DetectText
    \/ \E w \in {0, MaxDim}, ok \in BOOLEAN : DetectRasterize(w, MaxDim, ok)
    \/ \E e \in (MaxDim * MaxDim - 2)..(MaxDim * MaxDim) : DetectEdges(e)
    \/ Dispatch
    \/ RasterSubmit
    \/ \E i \in 0..(MaxPages - 1), how \in RasterOutcomes : RasterPageJob(i, how)
    \/ \E i \in 0..(MaxPages - 1) : RasterCollect(i)
    \/ RasterReturn
    \/ VectorSubmit
    \/ \E i \in 0..(MaxPages - 1), w \in BOOLEAN : VectorPageJob(i, w)
    \/ \E i \in 0..(MaxPages - 1) : VectorCollect(i)
    \/ VectorReturn

ProcessSpec == ProcessInit /\ [][ProcessNext]_vars

(***************************************************************************)
(* Properties of process_pdf (checked under ProcessSpec)                   *)
(***************************************************************************)
RasterPcs == {"raster_start", "raster_collect"}
VectorPcs == {"vector_start", "vector_collect"}
RasterShaped(r) == "processed_images" \in DOMAIN r
VectorShaped(r) == "text_content" \in DOMAIN r

\* no pipeline has opened the document, no page job exists, nothing written
NothingStarted ==
    /\ results = NoReport
    /\ job = NoJobs
    /\ job_result = NoJobs
    /\ collected = <<>>
    /\ files = {}

\* while a pipeline runs or after it ended, it is the one the type names
OnePipelineByType ==
    /\ pc \in RasterPcs => pdf_type = "raster"
    /\ pc \in VectorPcs => pdf_type = "vector"
    /\ RasterShaped(results) => pdf_type = "raster"
    /\ VectorShaped(results) => pdf_type = "vector"
    /\ \A i \in DOMAIN job_result :
           IF pdf_type = "raster"
           THEN "text" \notin DOMAIN job_result[i]
           ELSE /\ pdf_type = "vector"
                /\ "text" \in DOMAIN job_result[i]

\* the type returned with the report matches the report's shape
ReturnedTypeMatchesReport ==
    outcome = "returned" =>
        /\ pdf_type \in {"raster", "vector"}
        /\ pdf_type = "raster" <=> RasterShaped(results)
        /\ pdf_type = "vector" <=> VectorShaped(results)

\* a raise before a type was returned leaves everything untouched
ClassificationRaiseStartsNothing ==
    /\ pdf_type = "" => NothingStarted
    /\ (pc = "done" /\ pdf_type = "") => outcome = "raised"

\* a pipeline starts only from a finished classification, and a started
\* pipeline is never left for the other one
PipelineStartsAfterClassification ==
    /\ (pc' \in RasterPcs \cup VectorPcs /\ pc \notin RasterPcs \cup VectorPcs)
           => pc = "detected" /\ pdf_type \in {"raster", "vector"}
    /\ pc \in RasterPcs => pc' \in RasterPcs \cup {"done"}
    /\ pc \in VectorPcs => pc' \in VectorPcs \cup {"done"}
    /\ pdf_type /= "" => pdf_type' = pdf_type

\* C17: process_pdf classifies strictly before any pipeline and runs exactly
\* one pipeline, the raster pipeline if and only if the classifier returned
\* 'raster' and otherwise the vector pipeline; the returned type matches the
\* shape of the returned report; when classification raises, process_pdf
\* raises, no pipeline is started and no page job runs or writes anything
C17_ClassifyThenOnePipeline ==
    /\ [](OnePipelineByType /\ ReturnedTypeMatchesReport
            /\ ClassificationRaiseStartsNothing)
    /\ [][PipelineStartsAfterClassification]_vars

\* a scan classified as raster by its edge density was processed by the
\* raster pipeline and returned with an image written
C17_Witness ==
    /\ outcome = "returned"
    /\ pdf_type = "raster"
    /\ rasterized
    /\ RasterShaped(results)
    /\ results.processed_images /= <<>>
    /\ files /= {}

\* a classification that raised after rendering page 0
C17_ClassificationRaised ==
    /\ pc = "done" /\ outcome = "raised" /\ pdf_type = "" /\ rasterized

(***************************************************************************)
(* The three worker pools under fair scheduling: a batch run, a raster     *)
(* pipeline or a vector pipeline. The `with ThreadPoolExecutor` blocks     *)
(* (pdf_processor.py lines 132, 214, batch_processor.py line 88) run every *)
(* submitted job, and the initiating thread blocks in as_completed until a *)
(* future completes, so a run in which a step stays possible takes a step. *)
(***************************************************************************)
\* the documents of the vector pipeline runs: a corrupt file, and up to
\* MaxPages pages each of which has text or makes extract_text raise
JoinDocuments ==
    {d \in Documents :
        \A k \in 1..Len(d.pages) : d.pages[k] \in {TextPage(<<"a">>), RaisePage}}

JoinInit ==
    \/ BatchInit
    \/ RasterInit
    \/ VectorInit /\ [readable |-> readable, pages |-> pages, metadata |-> metadata]
                         \in JoinDocuments

JoinNext == BatchNext \/ RasterNext \/ VectorNext

JoinSpec == JoinInit /\ [][JoinNext]_vars /\ WF_vars(JoinNext)

\* the file exists and json.dump wrote the whole summary into it
SummaryWritten == SummaryFile(output_dir) \in files /\ outcome = "returned"

SummaryFileCreated == SummaryFile(output_dir) \in files

AllDocumentJobsJoined ==
    /\ \A p \in DOMAIN doc_job : doc_job[p] = "done" /\ InSeq(p, collected)
    /\ Len(batch_results) = Cardinality(pdf_files)

AllPageJobsJoined ==
    \A i \in DOMAIN job : job[i] = "done" /\ InSeq(i, collected)

\* the summary is built and written in one step, after every document job
\* was joined, and never again
SummaryOnceAfterJoin ==
    /\ (SummaryBuilt' /\ ~SummaryBuilt) =>
           /\ pc = "batch_collect" /\ pc' = "done"
           /\ AllDocumentJobsJoined
           /\ DOMAIN doc_job = pdf_files
    /\ (SummaryFileCreated' /\ ~SummaryFileCreated) => (SummaryBuilt' /\ ~SummaryBuilt)
    /\ SummaryBuilt => (summary' = summary /\ files' = files)

\* a pipeline leaves its as_completed loop only when every page job it
\* submitted is done and was yielded
PipelineReturnsAfterJoin ==
    (pc \in {"raster_collect", "vector_collect"} /\ pc' = "done") =>
        /\ AllPageJobsJoined
        /\ Cardinality(DOMAIN job) = IF RasterShaped(results)
                                     THEN results.pages_processed
                                     ELSE results.total_pages

JoinBeforeReport ==
    [][SummaryOnceAfterJoin /\ PipelineReturnsAfterJoin]_vars

\* C18: join-before-report: the batch summary is built and written exactly
\* once and only after every submitted document job has completed, each
\* pipeline returns only after every page job it submitted has completed,
\* and, every job terminating, a batch run that submitted its document jobs
\* eventually terminates with the summary written
C18_TerminatesWithSummaryWritten ==
    /\ JoinBeforeReport
    /\ (pc = "batch_collect") ~> (pc = "done" /\ SummaryWritten)

\* how a batch run that submitted document jobs ends: the summary is built;
\* open() raises with nothing written when the output directory does not
\* exist, json.dump raises with the file created when a result is not
\* serialisable, and otherwise the summary is written and the run returns
BatchRunEnded ==
    (pc = "done" /\ pdf_files /= {}) =>
        /\ SummaryBuilt
        /\ IF output_dir \notin dirs
           THEN outcome = "raised" /\ ~SummaryFileCreated
           ELSE IF ~JsonSerialisable(summary.results)
           THEN outcome = "raised" /\ SummaryFileCreated
           ELSE SummaryWritten

\* the part of join-before-report the runs have: the batch summary is built
\* once and only after every submitted document job has completed, each
\* pipeline returns only after every page job it submitted has completed,
\* every fair run terminates, and a batch run that submitted document jobs
\* ends as BatchRunEnded tells
JoinBeforeReportAndTermination ==
    /\ JoinBeforeReport
    /\ <>(pc = "done")
    /\ []BatchRunEnded

\* a batch run over two PDFs, one of which failed, ended with the summary
\* written
SummaryWrittenAfterJoin ==
    /\ pc = "done"
    /\ outcome = "returned"
    /\ Cardinality(pdf_files) >= 2
    /\ AllDocumentJobsJoined
    /\ SummaryBuilt
    /\ SummaryWritten
    /\ summary.failed_processing >= 1

\* a batch run whose output directory was never created: the summary is
\* built, the write raises
SummaryNotWritten ==
    /\ pc = "done"
    /\ outcome = "raised"
    /\ pdf_files /= {}
    /\ SummaryBuilt
    /\ ~SummaryFileCreated

\* a batch run over documents that were all processed without error, in an
\* existing output directory: json.dump raises on the byte string in the
\* metadata of one of them and leaves a file that does not hold the summary
SummaryTruncated ==
    /\ pc = "done"
    /\ outcome = "raised"
    /\ SummaryBuilt
    /\ summary.failed_processing = 0
    /\ SummaryFileCreated

====
